---- MODULE Spec2Model ----
(***************************************************************************)
(* Model of gh-prview's thread reconstruction and timeline merge           *)
(* (src/api.go: LoadPR, groupIntoThreads, RenderPR).                       *)
(*                                                                         *)
(* The specifications share the variables:                                 *)
(*   Spec        LoadPR from the point where the review comments and the   *)
(*               reviews have been fetched: groupIntoThreads, statement by *)
(*               statement, then the annotation of the reviews.            *)
(*   LiveSpec    Spec with weak fairness of the program's steps: a running *)
(*               program executes its next statement.                      *)
(*   RenderSpec  RenderPR's timeline: wrapping, concatenation and sort.    *)
(*                                                                         *)
(* Times are naturals (time.Time.Before is <).  A nil *int64 is NULL.      *)
(* sort.Slice is documented as not stable (slices of more than 12          *)
(* elements are sorted by pdqsort, which moves equal elements past each    *)
(* other); what it guarantees is a permutation of its input in which no    *)
(* element is followed by one that is less.  SortSlice is the set of those *)
(* outcomes.                                                               *)
(***************************************************************************)
EXTENDS Naturals, Sequences, FiniteSets

\* ---------------------------------------------------------------- bounds
MaxComments == 2
MaxTime == 2
NumReviews == 2
MaxIssueComments == 2
MaxReviews == 1
MaxCommits == 1

NULL == 0

Times == 1..MaxTime
\* Ids a parent reference can hold: the ids of the slice and one id beyond
\* them, which no comment of the slice carries.
IDs == 1..(MaxComments + 1)

VARIABLES
  comments,       \* reviewComments, the argument of groupIntoThreads
  reviews,        \* LoadPR's local reviews
  pc,             \* position in LoadPR / groupIntoThreads / RenderPR
  i,              \* index of the running loop
  rootID,         \* groupIntoThreads: rootID of the parent-chain walk
  rootIDs,        \* groupIntoThreads: rootIDs
  rootToReplies,  \* groupIntoThreads: rootToReplies
  threads,        \* groupIntoThreads: threads (its result)
  pr,             \* the PullRequest: Number, Comments, Reviews, Commits
  timeline,       \* RenderPR: timeline
  prNumber,       \* LoadPR: its argument, then the resolved number
  calls,          \* the fetches LoadPR has made, in order, each with its outcome
  commits,        \* LoadPR's local commits
  ret,            \* what LoadPR returned: NotReturned, or the PullRequest and the error
  w               \* RenderPR: the items written so far

vars == <<comments, reviews, pc, i, rootID, rootIDs, rootToReplies, threads, pr, timeline,
          prNumber, calls, commits, ret, w>>

\* ------------------------------------------------------------ data types
Comment(id, t, parent, review) ==
  [ID |-> id, CreatedAt |-> t, InReplyToID |-> parent, PullRequestReviewID |-> review]

Review(id, t) ==
  [ID |-> id, SubmittedAt |-> t, Threads |-> <<>>, ReplyCount |-> 0]

CheckCounts(succeeded, failed, pending, skipped) ==
  [Succeeded |-> succeeded, Failed |-> failed, Pending |-> pending, Skipped |-> skipped]

Commit(t) ==
  [CreatedAt |-> t, Checks |-> CheckCounts(0, 0, 0, 0)]

CommentThread(cs) ==
  [Comments |-> cs]

TimelineItem(type, t, comment, review, commit) ==
  [Type |-> type, CreatedAt |-> t, Comment |-> comment, Review |-> review, Commit |-> commit]

\* ------------------------------------------------------------- sort.Slice
\* less(i, j) of every sort.Slice call is at[i].Before(at[j]) for a time at[k]
\* read from the k-th element.
SortSlice_Descending(s, at) ==
  LET RECURSIVE From(_)
      From(S) ==
        IF S = {} THEN {<<>>}
        ELSE UNION { { <<s[k]>> \o r : r \in From(S \ {k}) } :
                     k \in {m \in S : \A j \in S : ~(at[m] < at[j])} }
  IN From(1..Len(s))

SortSlice(s, at) ==
  LET RECURSIVE From(_)
      From(S) ==
        IF S = {} THEN {<<>>}
        ELSE UNION { { <<s[k]>> \o r : r \in From(S \ {k}) } :
                     k \in {m \in S : \A j \in S : ~(at[j] < at[m])} }
  IN From(1..Len(s))

\* ------------------------------------------------------- groupIntoThreads
HasComment(cs, id) ==
  \E k \in 1..Len(cs) : cs[k].ID = id

commentByID(cs, id) ==
  cs[CHOOSE k \in 1..Len(cs) : cs[k].ID = id /\ \A j \in (k+1)..Len(cs) : cs[j].ID # id]

EmptyReplies ==
  [id \in IDs |-> <<>>]

RootAssign(rtr, c) ==
  [rtr EXCEPT ![c.ID] = <<c>>]

ReplyAppend(rtr, root, c) ==
  [rtr EXCEPT ![root] = Append(@, c)]

WalkBreaks_AtLastResolvable(cs, root) ==
  IF HasComment(cs, root)
  THEN IF commentByID(cs, root).InReplyToID = NULL THEN TRUE
       ELSE ~HasComment(cs, commentByID(cs, root).InReplyToID)
  ELSE TRUE

WalkBreaks(cs, root) ==
  IF HasComment(cs, root) THEN commentByID(cs, root).InReplyToID = NULL ELSE TRUE

WalkNextID(cs, root) ==
  commentByID(cs, root).InReplyToID

RootCreatedAt_ByID(cs, ids) ==
  [k \in 1..Len(ids) |-> commentByID(cs, ids[k]).ID]

RootCreatedAt(cs, ids) ==
  [k \in 1..Len(ids) |-> commentByID(cs, ids[k]).CreatedAt]

CreatedAt(s) ==
  [k \in 1..Len(s) |-> s[k].CreatedAt]

GroupRoot_EveryComment ==
  /\ pc = "group"
  /\ i <= Len(comments)
  /\ rootIDs' = Append(rootIDs, comments[i].ID)
  /\ rootToReplies' = RootAssign(rootToReplies, comments[i])
  /\ i' = i + 1
  /\ UNCHANGED <<comments, reviews, pc, rootID, threads, pr, timeline, prNumber, calls, commits, ret, w>>

\* for _, c := range comments: a comment without parent
GroupRoot ==
  /\ pc = "group"
  /\ i <= Len(comments)
  /\ comments[i].InReplyToID = NULL
  /\ rootIDs' = Append(rootIDs, comments[i].ID)
  /\ rootToReplies' = RootAssign(rootToReplies, comments[i])
  /\ i' = i + 1
  /\ UNCHANGED <<comments, reviews, pc, rootID, threads, pr, timeline, prNumber, calls, commits, ret, w>>

\* for _, c := range comments: a reply; the walk starts at its parent
GroupReply ==
  /\ pc = "group"
  /\ i <= Len(comments)
  /\ comments[i].InReplyToID # NULL
  /\ rootID' = comments[i].InReplyToID
  /\ pc' = "walk"
  /\ UNCHANGED <<comments, reviews, i, rootIDs, rootToReplies, threads, pr, timeline, prNumber, calls, commits, ret, w>>

\* the inner for, parent found and itself a reply: no break
WalkLookup ==
  /\ pc = "walk"
  /\ ~WalkBreaks(comments, rootID)
  /\ pc' = "advance"
  /\ UNCHANGED <<comments, reviews, i, rootID, rootIDs, rootToReplies, threads, pr, timeline, prNumber, calls, commits, ret, w>>

\* the inner for: rootID = *parent.InReplyToID, and round again
WalkAdvance ==
  /\ pc = "advance"
  /\ rootID' = WalkNextID(comments, rootID)
  /\ pc' = "walk"
  /\ UNCHANGED <<comments, reviews, i, rootIDs, rootToReplies, threads, pr, timeline, prNumber, calls, commits, ret, w>>

\* the inner for, parent absent or parentless: break, and the append after the loop
WalkBreak ==
  /\ pc = "walk"
  /\ WalkBreaks(comments, rootID)
  /\ rootToReplies' = ReplyAppend(rootToReplies, rootID, comments[i])
  /\ i' = i + 1
  /\ pc' = "group"
  /\ UNCHANGED <<comments, reviews, rootID, rootIDs, threads, pr, timeline, prNumber, calls, commits, ret, w>>

\* sort.Slice(rootIDs, ...)
SortRootIDs ==
  /\ pc = "group"
  /\ i > Len(comments)
  /\ rootIDs' \in SortSlice(rootIDs, RootCreatedAt(comments, rootIDs))
  /\ i' = 1
  /\ pc' = "threads"
  /\ UNCHANGED <<comments, reviews, rootID, rootToReplies, threads, pr, timeline, prNumber, calls, commits, ret, w>>

ThreadLoop_Unsorted ==
  /\ pc = "threads"
  /\ i <= Len(rootIDs)
  /\ threads' = Append(threads, CommentThread(rootToReplies[rootIDs[i]]))
  /\ i' = i + 1
  /\ UNCHANGED <<comments, reviews, pc, rootID, rootIDs, rootToReplies, pr, timeline, prNumber, calls, commits, ret, w>>

ThreadLoop_SortsInput ==
  /\ pc = "threads"
  /\ i <= Len(rootIDs)
  /\ \E replies \in SortSlice(rootToReplies[rootIDs[i]], CreatedAt(rootToReplies[rootIDs[i]])) :
       /\ rootToReplies' = [rootToReplies EXCEPT ![rootIDs[i]] = replies]
       /\ threads' = Append(threads, CommentThread(replies))
  /\ comments' \in SortSlice(comments, CreatedAt(comments))
  /\ i' = i + 1
  /\ UNCHANGED <<reviews, pc, rootID, rootIDs, pr, timeline, prNumber, calls, commits, ret, w>>

\* for _, rootID := range rootIDs: the replies are sorted in place and appended
ThreadLoop ==
  /\ pc = "threads"
  /\ i <= Len(rootIDs)
  /\ \E replies \in SortSlice(rootToReplies[rootIDs[i]], CreatedAt(rootToReplies[rootIDs[i]])) :
       /\ rootToReplies' = [rootToReplies EXCEPT ![rootIDs[i]] = replies]
       /\ threads' = Append(threads, CommentThread(replies))
  /\ i' = i + 1
  /\ UNCHANGED <<comments, reviews, pc, rootID, rootIDs, pr, timeline, prNumber, calls, commits, ret, w>>

\* return threads
GroupReturn ==
  /\ pc = "threads"
  /\ i > Len(rootIDs)
  /\ pc' = "annotate"
  /\ UNCHANGED <<comments, reviews, i, rootID, rootIDs, rootToReplies, threads, pr, timeline, prNumber, calls, commits, ret, w>>

\* groupIntoThreads as a function of its argument, built from the same
\* statements: the set of results the sorts allow.  Defined where the walk ends.
RECURSIVE WalkToRoot(_, _)
WalkToRoot(cs, root) ==
  IF WalkBreaks(cs, root) THEN root ELSE WalkToRoot(cs, WalkNextID(cs, root))

RECURSIVE GroupFrom(_, _, _, _)
GroupFrom(cs, k, ids, rtr) ==
  IF k > Len(cs) THEN [rootIDs |-> ids, rootToReplies |-> rtr]
  ELSE IF cs[k].InReplyToID = NULL
       THEN GroupFrom(cs, k + 1, Append(ids, cs[k].ID), RootAssign(rtr, cs[k]))
       ELSE GroupFrom(cs, k + 1, ids, ReplyAppend(rtr, WalkToRoot(cs, cs[k].InReplyToID), cs[k]))

RECURSIVE ThreadsFrom(_, _)
ThreadsFrom(ids, rtr) ==
  IF ids = <<>> THEN {<<>>}
  ELSE { <<CommentThread(replies)>> \o rest :
           replies \in SortSlice(rtr[Head(ids)], CreatedAt(rtr[Head(ids)])),
           rest \in ThreadsFrom(Tail(ids), rtr) }

groupIntoThreads(cs) ==
  LET g == GroupFrom(cs, 1, <<>>, EmptyReplies)
  IN UNION { ThreadsFrom(ids, g.rootToReplies) :
               ids \in SortSlice(g.rootIDs, RootCreatedAt(cs, g.rootIDs)) }

\* ------------------------------------------------------------------ LoadPR
threadsByReview(ts, r) ==
  SelectSeq(ts, LAMBDA t : Len(t.Comments) > 0 /\ t.Comments[1].PullRequestReviewID = r)

replyCountByReview_OtherReviewOnly(cs, r) ==
  Cardinality({k \in 1..Len(cs) :
                 /\ cs[k].InReplyToID # NULL
                 /\ cs[k].PullRequestReviewID = r
                 /\ \E j \in 1..Len(cs) : cs[j].ID = cs[k].InReplyToID /\ cs[j].PullRequestReviewID # r})

replyCountByReview_AllOwned(cs, r) ==
  Cardinality({k \in 1..Len(cs) : cs[k].PullRequestReviewID = r})

replyCountByReview(cs, r) ==
  Cardinality({k \in 1..Len(cs) : cs[k].InReplyToID # NULL /\ cs[k].PullRequestReviewID = r})

AnnotateReview(rv, ts, cs) ==
  [rv EXCEPT !.Threads = threadsByReview(ts, rv.ID),
             !.ReplyCount = replyCountByReview(cs, rv.ID)]

Annotate ==
  /\ pc = "annotate"
  /\ reviews' = [k \in 1..Len(reviews) |-> AnnotateReview(reviews[k], threads, comments)]
  /\ pr' = [pr EXCEPT !.Reviews = reviews']
  /\ pc' = "annotated"
  /\ UNCHANGED <<comments, i, rootID, rootIDs, rootToReplies, threads, timeline, prNumber, calls, commits, ret, w>>

\* ---------------------------------------------------------------- RenderPR
WrapComments(p) ==
  [k \in 1..Len(p.Comments) |-> TimelineItem("comment", p.Comments[k].CreatedAt, k, NULL, NULL)]

WrapReviews_TaggedComment(p) ==
  [k \in 1..Len(p.Reviews) |-> TimelineItem("comment", p.Reviews[k].SubmittedAt, NULL, k, NULL)]

WrapReviews(p) ==
  [k \in 1..Len(p.Reviews) |-> TimelineItem("review", p.Reviews[k].SubmittedAt, NULL, k, NULL)]

WrapCommits(p) ==
  [k \in 1..Len(p.Commits) |-> TimelineItem("commit", p.Commits[k].CreatedAt, NULL, NULL, k)]

BuildTimeline ==
  /\ pc = "timeline"
  /\ timeline' = WrapComments(pr) \o WrapReviews(pr) \o WrapCommits(pr)
  /\ pc' = "sort"
  /\ UNCHANGED <<comments, reviews, i, rootID, rootIDs, rootToReplies, threads, pr, prNumber, calls, commits, ret, w>>

SortTimeline ==
  /\ pc = "sort"
  /\ timeline' \in SortSlice(timeline, CreatedAt(timeline))
  /\ pc' = "render"
  /\ UNCHANGED <<comments, reviews, i, rootID, rootIDs, rootToReplies, threads, pr, prNumber, calls, commits, ret, w>>

\* what the loop over the timeline writes for an item: the payload the item's
\* Type selects, with the time that payload carries
WrittenItem(p, it) ==
  IF it.Type = "comment"
  THEN [Type |-> "comment", Index |-> it.Comment, At |-> p.Comments[it.Comment].CreatedAt]
  ELSE IF it.Type = "review"
  THEN [Type |-> "review", Index |-> it.Review, At |-> p.Reviews[it.Review].SubmittedAt]
  ELSE [Type |-> "commit", Index |-> it.Commit, At |-> p.Commits[it.Commit].CreatedAt]

\* for _, item := range timeline
RenderItem ==
  /\ pc = "render"
  /\ i <= Len(timeline)
  /\ w' = Append(w, WrittenItem(pr, timeline[i]))
  /\ i' = i + 1
  /\ UNCHANGED <<comments, reviews, pc, rootID, rootIDs, rootToReplies, threads, pr, timeline,
                  prNumber, calls, commits, ret>>

\* return nil
RenderReturn ==
  /\ pc = "render"
  /\ i > Len(timeline)
  /\ pc' = "rendered"
  /\ UNCHANGED <<comments, reviews, i, rootID, rootIDs, rootToReplies, threads, pr, timeline,
                  prNumber, calls, commits, ret, w>>

\* ----------------------------------------------------------------- inputs
\* The slice the API returns: unique ids (the k-th comment has id k; the code
\* only compares ids for equality, so which ids they are does not matter).
CommentFields ==
  Times \X ({NULL} \cup IDs) \X (1..NumReviews)

CommentsOf(n, f) ==
  [k \in 1..n |-> Comment(k, f[k][1], f[k][2], f[k][3])]

FetchedReviews ==
  { [k \in 1..n |-> Review(k, 1)] : n \in 1..NumReviews }

\* PullRequest{}
EmptyPR ==
  [Number |-> 0, Comments |-> <<>>, Reviews |-> <<>>, Commits |-> <<>>]

NotReturned ==
  [returned |-> FALSE]

\* the fetches LoadPR has made by the time it calls groupIntoThreads
CallsBeforeGroup ==
  [k \in 1..6 |->
     [step |-> <<"repo", "client", "pr", "comments", "reviews", "reviewComments">>[k],
      ok |-> TRUE]]

IssueComments ==
  UNION { [1..n -> {Comment(0, t, NULL, 0) : t \in Times}] : n \in 0..MaxIssueComments }

Reviews ==
  UNION { { [k \in 1..n |-> Review(k, f[k])] : f \in [1..n -> Times] } : n \in 0..MaxReviews }

Commits ==
  UNION { [1..n -> {Commit(t) : t \in Times}] : n \in 0..MaxCommits }

Init ==
  /\ \E n \in 0..MaxComments : \E f \in [1..n -> CommentFields] : comments = CommentsOf(n, f)
  /\ reviews \in FetchedReviews
  /\ pc = "group"
  /\ i = 1
  /\ rootID = NULL
  /\ rootIDs = <<>>
  /\ rootToReplies = EmptyReplies
  /\ threads = <<>>
  /\ prNumber = 1
  /\ pr = [EmptyPR EXCEPT !.Number = prNumber]
  /\ timeline = <<>>
  /\ calls = CallsBeforeGroup
  /\ commits = <<>>
  /\ ret = NotReturned
  /\ w = <<>>

Next ==
  \/ GroupRoot
  \/ GroupReply
  \/ WalkLookup
  \/ WalkAdvance
  \/ WalkBreak
  \/ SortRootIDs
  \/ ThreadLoop
  \/ GroupReturn
  \/ Annotate

Spec == Init /\ [][Next]_vars

RenderInit ==
  /\ comments = <<>>
  /\ reviews = <<>>
  /\ pc = "timeline"
  /\ i = 1
  /\ rootID = NULL
  /\ rootIDs = <<>>
  /\ rootToReplies = EmptyReplies
  /\ threads = <<>>
  /\ prNumber = 1
  /\ pr \in [Number : {prNumber}, Comments : IssueComments, Reviews : Reviews, Commits : Commits]
  /\ timeline = <<>>
  /\ calls = <<>>
  /\ commits = <<>>
  /\ ret = NotReturned
  /\ w = <<>>

RenderNext ==
  \/ BuildTimeline
  \/ SortTimeline
  \/ RenderItem
  \/ RenderReturn

RenderSpec == RenderInit /\ [][RenderNext]_vars

LiveSpec == Spec /\ WF_vars(Next)

\* ------------------------------------------------------------------ LoadPR
Call(step, ok) ==
  [step |-> step, ok |-> ok]

\* return PullRequest{}, fmt.Errorf(...) after the step that failed
LoadError_PartialPR(step) ==
  /\ calls' = Append(calls, Call(step, FALSE))
  /\ ret' = [returned |-> TRUE, pr |-> pr, err |-> TRUE]
  /\ pc' = "returned"

LoadError(step) ==
  /\ calls' = Append(calls, Call(step, FALSE))
  /\ ret' = [returned |-> TRUE, pr |-> EmptyPR, err |-> TRUE]
  /\ pc' = "returned"

\* the responses of the API the steps of LoadPR are explored with; what
\* groupIntoThreads and RenderPR make of every slice is explored by Spec and
\* RenderSpec
FetchedIssueComments ==
  { <<>>, <<Comment(0, MaxTime, NULL, 0)>> }

FetchedReviewComments ==
  { <<>>,
    <<Comment(1, 1, NULL, 1)>>,
    <<Comment(1, MaxTime, NULL, 1), Comment(2, 1, 1, 1), Comment(3, 1, 2, 1)>> }

CheckRun(status, conclusion) ==
  [Status |-> status, Conclusion |-> conclusion]

CheckRuns ==
  { CheckRun("completed", c) :
      c \in {"success", "failure", "cancelled", "timed_out", "skipped", "neutral"} }
    \cup { CheckRun("in_progress", "") }

CheckRunsResponses ==
  { <<>> } \cup { <<r>> : r \in CheckRuns }
    \cup { <<CheckRun("completed", "success"), CheckRun("in_progress", "")>> }

\* for _, run := range checkRuns.CheckRuns
RECURSIVE CountCheckRuns(_)
CountCheckRuns(runs) ==
  IF runs = <<>> THEN CheckCounts(0, 0, 0, 0)
  ELSE LET counts == CountCheckRuns(SubSeq(runs, 1, Len(runs) - 1))
           run == runs[Len(runs)]
       IN IF run.Status # "completed"
          THEN [counts EXCEPT !.Pending = @ + 1]
          ELSE IF run.Conclusion = "success"
          THEN [counts EXCEPT !.Succeeded = @ + 1]
          ELSE IF run.Conclusion \in {"failure", "cancelled", "timed_out"}
          THEN [counts EXCEPT !.Failed = @ + 1]
          ELSE IF run.Conclusion = "skipped"
          THEN [counts EXCEPT !.Skipped = @ + 1]
          ELSE counts

\* the counts of a commit; if the request fails, the zero counts and no error
FetchCommitChecks(ok, runs) ==
  IF ok THEN CountCheckRuns(runs) ELSE CheckCounts(0, 0, 0, 0)

GetCurrentRepo ==
  /\ pc = "repo"
  /\ \E ok \in BOOLEAN :
       IF ok THEN /\ calls' = Append(calls, Call("repo", TRUE))
                  /\ pc' = "client"
                  /\ ret' = ret
            ELSE LoadError("repo")
  /\ UNCHANGED <<comments, reviews, i, rootID, rootIDs, rootToReplies, threads, pr, timeline,
                  prNumber, commits, w>>

\* after the client: if prNumber == 0, the number is resolved first
GetRESTClient ==
  /\ pc = "client"
  /\ \E ok \in BOOLEAN :
       IF ok THEN /\ calls' = Append(calls, Call("client", TRUE))
                  /\ pc' = IF prNumber = 0 THEN "resolve" ELSE "pr"
                  /\ ret' = ret
            ELSE LoadError("client")
  /\ UNCHANGED <<comments, reviews, i, rootID, rootIDs, rootToReplies, threads, pr, timeline,
                  prNumber, commits, w>>

GetCurrentPR ==
  /\ pc = "resolve"
  /\ \E ok \in BOOLEAN :
       IF ok THEN /\ calls' = Append(calls, Call("resolve", TRUE))
                  /\ prNumber' = 1
                  /\ pc' = "pr"
                  /\ ret' = ret
            ELSE LoadError("resolve") /\ prNumber' = prNumber
  /\ UNCHANGED <<comments, reviews, i, rootID, rootIDs, rootToReplies, threads, pr, timeline,
                  commits, w>>

FetchPR ==
  /\ pc = "pr"
  /\ \E ok \in BOOLEAN :
       IF ok THEN /\ calls' = Append(calls, Call("pr", TRUE))
                  /\ pr' = [EmptyPR EXCEPT !.Number = prNumber]
                  /\ pc' = "comments"
                  /\ ret' = ret
            ELSE LoadError("pr") /\ pr' = pr
  /\ UNCHANGED <<comments, reviews, i, rootID, rootIDs, rootToReplies, threads, timeline,
                  prNumber, commits, w>>

FetchPRComments ==
  /\ pc = "comments"
  /\ \E ok \in BOOLEAN :
       IF ok THEN /\ calls' = Append(calls, Call("comments", TRUE))
                  /\ \E cs \in FetchedIssueComments : pr' = [pr EXCEPT !.Comments = cs]
                  /\ pc' = "reviews"
                  /\ ret' = ret
            ELSE LoadError("comments") /\ pr' = pr
  /\ UNCHANGED <<comments, reviews, i, rootID, rootIDs, rootToReplies, threads, timeline,
                  prNumber, commits, w>>

FetchPRReviews ==
  /\ pc = "reviews"
  /\ \E ok \in BOOLEAN :
       IF ok THEN /\ calls' = Append(calls, Call("reviews", TRUE))
                  /\ reviews' \in FetchedReviews
                  /\ pc' = "reviewComments"
                  /\ ret' = ret
            ELSE LoadError("reviews") /\ reviews' = reviews
  /\ UNCHANGED <<comments, i, rootID, rootIDs, rootToReplies, threads, pr, timeline,
                  prNumber, commits, w>>

\* on success groupIntoThreads(reviewComments) is entered
FetchAllReviewComments ==
  /\ pc = "reviewComments"
  /\ \E ok \in BOOLEAN :
       IF ok THEN /\ calls' = Append(calls, Call("reviewComments", TRUE))
                  /\ comments' \in FetchedReviewComments
                  /\ pc' = "group"
                  /\ ret' = ret
            ELSE LoadError("reviewComments") /\ comments' = comments
  /\ UNCHANGED <<reviews, i, rootID, rootIDs, rootToReplies, threads, pr, timeline,
                  prNumber, commits, w>>

FetchCommits ==
  /\ pc = "annotated"
  /\ \E ok \in BOOLEAN :
       IF ok THEN /\ calls' = Append(calls, Call("commits", TRUE))
                  /\ commits' \in Commits
                  /\ i' = 1
                  /\ pc' = "checks"
                  /\ ret' = ret
            ELSE LoadError("commits") /\ commits' = commits /\ i' = i
  /\ UNCHANGED <<comments, reviews, rootID, rootIDs, rootToReplies, threads, pr, timeline,
                  prNumber, w>>

\* for i := range commits: commits[i].Checks = FetchCommitChecks(...)
ChecksLoop ==
  /\ pc = "checks"
  /\ i <= Len(commits)
  /\ \E ok \in BOOLEAN : \E runs \in CheckRunsResponses :
       /\ calls' = Append(calls, Call("checks", ok))
       /\ commits' = [commits EXCEPT ![i].Checks = FetchCommitChecks(ok, runs)]
  /\ i' = i + 1
  /\ UNCHANGED <<comments, reviews, pc, rootID, rootIDs, rootToReplies, threads, pr, timeline,
                  prNumber, ret, w>>

\* pr.Commits = commits; return pr, nil
LoadReturn ==
  /\ pc = "checks"
  /\ i > Len(commits)
  /\ pr' = [pr EXCEPT !.Commits = commits]
  /\ ret' = [returned |-> TRUE, pr |-> pr', err |-> FALSE]
  /\ pc' = "returned"
  /\ UNCHANGED <<comments, reviews, i, rootID, rootIDs, rootToReplies, threads, timeline,
                  prNumber, calls, commits, w>>

\* the caller: if LoadPR returned no error, RenderPR(os.Stdout, pr)
RenderCall ==
  /\ pc = "returned"
  /\ ~ret.err
  /\ pr' = ret.pr
  /\ i' = 1
  /\ pc' = "timeline"
  /\ UNCHANGED <<comments, reviews, rootID, rootIDs, rootToReplies, threads, timeline,
                  prNumber, calls, commits, ret, w>>

LoadInit ==
  /\ comments = <<>>
  /\ reviews = <<>>
  /\ pc = "repo"
  /\ i = 1
  /\ rootID = NULL
  /\ rootIDs = <<>>
  /\ rootToReplies = EmptyReplies
  /\ threads = <<>>
  /\ prNumber \in {0, 1}
  /\ pr = EmptyPR
  /\ timeline = <<>>
  /\ calls = <<>>
  /\ commits = <<>>
  /\ ret = NotReturned
  /\ w = <<>>

LoadNext ==
  \/ GetCurrentRepo
  \/ GetRESTClient
  \/ GetCurrentPR
  \/ FetchPR
  \/ FetchPRComments
  \/ FetchPRReviews
  \/ FetchAllReviewComments
  \/ Next
  \/ FetchCommits
  \/ ChecksLoop
  \/ LoadReturn
  \/ RenderCall
  \/ RenderNext

LoadSpec == LoadInit /\ [][LoadNext]_vars

\* ------------------------------------------------------------ properties
\* groupIntoThreads has returned to LoadPR
Returned ==
  pc \in {"annotate", "annotated"}

\* The statement-by-statement run returns one of the results of the function.
ReturnsFunctionResult ==
  Returned => threads \in groupIntoThreads(comments)

Range(s) ==
  {s[k] : k \in 1..Len(s)}

\* number of places of the returned threads that hold the comment c
Occurrences(ts, c) ==
  Cardinality({pos \in (1..Len(ts)) \X (1..MaxComments) :
                 pos[2] <= Len(ts[pos[1]].Comments) /\ ts[pos[1]].Comments[pos[2]] = c})

\* C1: every input comment is in exactly one returned thread, exactly once
\* (no comment lost, none duplicated).
C1_EveryCommentInExactlyOneThread ==
  Returned => \A k \in 1..Len(comments) : Occurrences(threads, comments[k]) = 1

\* C3: groupIntoThreads returns for every input, also when parent references
\* are dangling, self-referential or cyclic.
C3_GroupIntoThreadsReturns ==
  <>Returned

DistinctTimes(cs) ==
  \A a, b \in 1..Len(cs) : a # b => cs[a].CreatedAt # cs[b].CreatedAt

Permutations(n) ==
  {p \in [1..n -> 1..n] : \A a, b \in 1..n : a # b => p[a] # p[b]}

\* C4: with pairwise distinct creation times, every permutation of the input
\* slice gives the same list of threads.
C4_SameThreadsForEveryPermutation ==
  (Returned /\ DistinctTimes(comments)) =>
    \A p \in Permutations(Len(comments)) :
      groupIntoThreads([k \in 1..Len(comments) |-> comments[p[k]]]) = {threads}

\* C5: the first element of every returned thread is the comment without
\* parent reference.
C5_FirstElementIsRoot ==
  Returned => \A t \in 1..Len(threads) : threads[t].Comments[1].InReplyToID = NULL

\* the comment without parent reference of a returned thread
ThreadRoot(t) ==
  CHOOSE c \in Range(t.Comments) : c.InReplyToID = NULL

\* C6: the threads attached to a review are exactly the returned threads whose
\* root comment is owned by that review, whatever reviews own the replies.
C6_ThreadsAttachedByRootOwner ==
  pc = "annotated" =>
    \A r \in 1..Len(reviews) :
      reviews[r].Threads =
        SelectSeq(threads, LAMBDA t : ThreadRoot(t).PullRequestReviewID = reviews[r].ID)

\* the review comments are a root comments[a] and its reply comments[b], both
\* owned by reviews[r]
RootAndReplyOfReview(a, b, r) ==
  /\ Len(comments) = 2
  /\ a # b
  /\ comments[a].InReplyToID = NULL
  /\ comments[b].InReplyToID = comments[a].ID
  /\ comments[a].PullRequestReviewID = reviews[r].ID
  /\ comments[b].PullRequestReviewID = reviews[r].ID

RepliesOwnedBy(id) ==
  SelectSeq(comments, LAMBDA c : c.InReplyToID # NULL /\ c.PullRequestReviewID = id)

\* C8: the ReplyCount of every review is the number of review comments with a
\* parent reference that the review owns, wherever they were grouped.
C8_ReplyCountIsOwnedReplies ==
  pc = "annotated" =>
    /\ pr.Reviews = reviews
    /\ \A r \in 1..Len(reviews) : reviews[r].ReplyCount = Len(RepliesOwnedBy(reviews[r].ID))

\* a review without threads counts a reply that sits in the thread of another
\* review
C8_Witness ==
  /\ pc = "annotated"
  /\ \E r \in 1..Len(reviews) :
       /\ reviews[r].Threads = <<>>
       /\ reviews[r].ReplyCount = 1
       /\ \E c \in Range(RepliesOwnedBy(reviews[r].ID)) : Occurrences(threads, c) = 1

\* the ids on the parent chain of c: its own id, its parent's, ...
ParentRef(cs, id) ==
  IF HasComment(cs, id) THEN commentByID(cs, id).InReplyToID ELSE NULL

RECURSIVE ChainIDs(_, _, _)
ChainIDs(cs, id, fuel) ==
  IF id = NULL \/ fuel = 0 THEN {} ELSE {id} \cup ChainIDs(cs, ParentRef(cs, id), fuel - 1)

ParentChain(cs, c) ==
  ChainIDs(cs, c.ID, Len(cs) + 1)

MissingOnChain(cs, c) ==
  {m \in ParentChain(cs, c) : ~HasComment(cs, m)}

LastResolvable(cs, c, m) ==
  CHOOSE x \in ParentChain(cs, c) : ParentRef(cs, x) = m

\* the comments of the slice the loop of groupIntoThreads has placed in a group
Placed ==
  IF pc \in {"group", "walk", "advance"} THEN 1..(i - 1) ELSE 1..Len(comments)

GroupKeys(c) ==
  {id \in IDs : c \in Range(rootToReplies[id])}

\* C9 as claimed: a comment whose parent chain reaches an absent id is grouped
\* under the id of the last comment of the chain that is present.
C9_DanglingChainKeyedByLastResolvable ==
  \A k \in Placed : \A m \in MissingOnChain(comments, comments[k]) :
    GroupKeys(comments[k]) = {LastResolvable(comments, comments[k], m)}

\* C9 as amended: a comment whose parent chain reaches an absent id is grouped
\* under that absent id and under no other key, so the comments of the chain
\* share one group.
C9_DanglingChainKeyedByMissingID ==
  \A k \in Placed : \A m \in MissingOnChain(comments, comments[k]) :
    GroupKeys(comments[k]) = {m}

\* a group under an absent id holds a comment and a reply to that comment
C9_Witness ==
  /\ Returned
  /\ \E m \in IDs :
       /\ ~HasComment(comments, m)
       /\ \E c, d \in Range(rootToReplies[m]) :
            c.InReplyToID = m /\ d.InReplyToID = c.ID

\* ----------------------------------------------------- properties: RenderPR
\* position of an item in the concatenation comments, reviews, commits
ConcatPos(it) ==
  IF it.Type = "comment" THEN it.Comment
  ELSE IF it.Type = "review" THEN Len(pr.Comments) + it.Review
  ELSE Len(pr.Comments) + Len(pr.Reviews) + it.Commit

\* C2: items with identical timestamps are rendered in concatenation order
\* (comments, then reviews, then commits, each in input order).
C2_EqualTimesKeepConcatenationOrder ==
  pc = "render" =>
    \A a, b \in 1..Len(timeline) :
      (a < b /\ timeline[a].CreatedAt = timeline[b].CreatedAt) =>
        ConcatPos(timeline[a]) < ConcatPos(timeline[b])

TagMatchesPayload(it) ==
  \/ it.Type = "comment" /\ it.Comment # NULL /\ it.Review = NULL /\ it.Commit = NULL
  \/ it.Type = "review" /\ it.Comment = NULL /\ it.Review # NULL /\ it.Commit = NULL
  \/ it.Type = "commit" /\ it.Comment = NULL /\ it.Review = NULL /\ it.Commit # NULL

ItemsOf(type, k) ==
  {n \in 1..Len(timeline) :
     /\ timeline[n].Type = type
     /\ k = (IF type = "comment" THEN timeline[n].Comment
             ELSE IF type = "review" THEN timeline[n].Review ELSE timeline[n].Commit)}

\* C10: before and after the sort the timeline has one item per standalone
\* comment, review and commit, and each item's tag matches its only payload.
C10_OneTaggedItemPerEvent ==
  pc \in {"sort", "render"} =>
    /\ Len(timeline) = Len(pr.Comments) + Len(pr.Reviews) + Len(pr.Commits)
    /\ \A k \in 1..Len(pr.Comments) : Cardinality(ItemsOf("comment", k)) = 1
    /\ \A k \in 1..Len(pr.Reviews) : Cardinality(ItemsOf("review", k)) = 1
    /\ \A k \in 1..Len(pr.Commits) : Cardinality(ItemsOf("commit", k)) = 1
    /\ \A n \in 1..Len(timeline) : TagMatchesPayload(timeline[n])

\* the sort has moved a commit in front of an earlier-listed comment and review
C10_Witness ==
  /\ pc = "render"
  /\ Len(pr.Comments) > 0 /\ Len(pr.Reviews) > 0 /\ Len(pr.Commits) > 0
  /\ timeline[1].Type = "commit"
  /\ \A n \in 2..Len(timeline) : timeline[1].CreatedAt < timeline[n].CreatedAt

\* C11: the items RenderPR writes are in non-decreasing order of their key
\* (creation, submission, commit time): none follows one with a later key.
C11_WrittenInTimeOrder ==
  \A a, b \in 1..Len(w) : a < b => w[a].At <= w[b].At

\* all is written, and the commit, listed last, is written first
C11_Witness ==
  /\ pc = "rendered"
  /\ Len(pr.Comments) > 0 /\ Len(pr.Reviews) > 0 /\ Len(pr.Commits) > 0
  /\ w[1].Type = "commit"
  /\ \A n \in 2..Len(w) : w[1].At < w[n].At

\* -------------------------------------------- properties: groupIntoThreads
\* C12: the comments of every returned thread are in non-decreasing order of
\* creation timestamp.
C12_ThreadInTimeOrder ==
  Returned =>
    \A t \in 1..Len(threads) : \A a, b \in 1..Len(threads[t].Comments) :
      a < b => threads[t].Comments[a].CreatedAt <= threads[t].Comments[b].CreatedAt

\* a returned thread in which the sort has moved a reply in front of its root
C12_Witness ==
  /\ Returned
  /\ \E t \in 1..Len(threads) :
       /\ Len(threads[t].Comments) = 2
       /\ threads[t].Comments[2].InReplyToID = NULL
       /\ threads[t].Comments[1].CreatedAt < threads[t].Comments[2].CreatedAt

\* position of a comment in the input slice
InputPos(c) ==
  CHOOSE k \in 1..Len(comments) : comments[k] = c

\* C13: comments of one thread with equal creation timestamps keep their
\* relative order from the input slice.
C13_EqualTimesKeepInputOrder ==
  Returned =>
    \A t \in 1..Len(threads) : \A a, b \in 1..Len(threads[t].Comments) :
      (a < b /\ threads[t].Comments[a].CreatedAt = threads[t].Comments[b].CreatedAt) =>
        InputPos(threads[t].Comments[a]) < InputPos(threads[t].Comments[b])

Parentless(cs) ==
  {k \in 1..Len(cs) : cs[k].InReplyToID = NULL}

\* C14: every returned thread is non-empty and holds exactly one parentless
\* comment, there is one thread per parentless input comment, and distinct
\* threads share no comment.
C14_OneThreadPerRoot ==
  Returned =>
    /\ \A t \in 1..Len(threads) :
         /\ Len(threads[t].Comments) > 0
         /\ Cardinality(Parentless(threads[t].Comments)) = 1
    /\ Len(threads) = Cardinality(Parentless(comments))
    /\ \A k \in Parentless(comments) :
         Cardinality({t \in 1..Len(threads) : comments[k] \in Range(threads[t].Comments)}) = 1
    /\ \A t, u \in 1..Len(threads) :
         t # u => Range(threads[t].Comments) \cap Range(threads[u].Comments) = {}

\* two threads are returned
C14_Witness ==
  /\ Returned
  /\ Len(threads) = 2
  /\ Cardinality(Parentless(comments)) = 2

IsSubsequence(s, t) ==
  \E S \in SUBSET (1..Len(t)) :
    /\ Cardinality(S) = Len(s)
    /\ \A k \in 1..Len(s) :
         \E n \in S : Cardinality({m \in S : m <= n}) = k /\ t[n] = s[k]

RootTimesAscend(ts) ==
  \A a, b \in 1..Len(ts) :
    a < b => ThreadRoot(ts[a]).CreatedAt <= ThreadRoot(ts[b]).CreatedAt

\* C17: the returned threads are in non-decreasing order of their root's
\* creation timestamp, and the threads of each review are a subsequence of
\* them, so in that order too.
C17_ThreadsInRootTimeOrder ==
  /\ Returned => RootTimesAscend(threads)
  /\ pc = "annotated" =>
       \A r \in 1..Len(reviews) :
         IsSubsequence(reviews[r].Threads, threads) /\ RootTimesAscend(reviews[r].Threads)

\* a review has two threads, whose roots came in the other order in the slice
C17_Witness ==
  /\ pc = "annotated"
  /\ \E r \in 1..Len(reviews) :
       /\ Len(reviews[r].Threads) = 2
       /\ InputPos(ThreadRoot(reviews[r].Threads[2])) < InputPos(ThreadRoot(reviews[r].Threads[1]))
       /\ ThreadRoot(reviews[r].Threads[1]).CreatedAt < ThreadRoot(reviews[r].Threads[2]).CreatedAt

\* ------------------------------------------------------ properties: LoadPR
Failed ==
  {k \in 1..Len(calls) : ~calls[k].ok}

\* C15: whenever a fetch made by LoadPR fails, LoadPR returns a non-nil error,
\* and RenderPR is never entered with a PullRequest one of whose fetches failed.
C15_EveryFetchFailureIsAnError ==
  /\ (ret.returned /\ Failed # {}) => ret.err
  /\ pc \in {"timeline", "sort", "render", "rendered"} => Failed = {}

\* C16: the statements of groupIntoThreads leave the review-comment slice as
\* it is, and the timeline construction and sort of RenderPR leave pr
\* (Comments, Reviews, Commits) as it is.
C16_InputsUnchanged ==
  [][ /\ pc \in {"group", "walk", "advance", "threads"} => comments' = comments
      /\ pc \in {"timeline", "sort"} => pr' = pr ]_vars

\* RenderPR has sorted a review in front of the issue comment listed before
\* it, of a PullRequest for which groupIntoThreads has sorted a reply in front
\* of its root, the first comment of the slice
C16_Witness ==
  /\ pc = "render"
  /\ Len(pr.Comments) > 0
  /\ timeline[1].Type = "review"
  /\ Len(comments) > 1
  /\ comments[1].InReplyToID = NULL
  /\ \E t \in 1..Len(threads) :
       /\ comments[1] \in Range(threads[t].Comments)
       /\ threads[t].Comments[1] # comments[1]

\* the steps of LoadPR that return an error
ErrorSteps ==
  {"repo", "client", "resolve", "pr", "comments", "reviews", "reviewComments", "commits"}

\* the steps that may follow the calls cs, for the value num of prNumber
StepAfter(cs, num) ==
  IF cs = <<>> THEN {"repo"}
  ELSE LET last == cs[Len(cs)]
       IN IF ~last.ok /\ last.step \in ErrorSteps THEN {}
          ELSE IF last.step = "repo" THEN {"client"}
          ELSE IF last.step = "client" THEN (IF num = 0 THEN {"resolve"} ELSE {"pr"})
          ELSE IF last.step = "resolve" THEN {"pr"}
          ELSE IF last.step = "pr" THEN {"comments"}
          ELSE IF last.step = "comments" THEN {"reviews"}
          ELSE IF last.step = "reviews" THEN {"reviewComments"}
          ELSE IF last.step = "reviewComments" THEN {"commits"}
          ELSE {"checks"}

ChecksMade ==
  Cardinality({k \in 1..Len(calls) : calls[k].step = "checks"})

\* C18: LoadPR makes its steps in the fixed order (the number is resolved
\* only if prNumber is 0, and there is one checks step per commit); after a
\* step that returned an error it makes no other and returns PullRequest{}
\* with an error; it returns without error only after all of them.
C18_StepsInOrderUntilFirstError ==
  /\ [][ /\ calls' # calls =>
              \E st \in StepAfter(calls, prNumber) : \E ok \in BOOLEAN :
                calls' = Append(calls, Call(st, ok))
         /\ ret.returned => calls' = calls ]_vars
  /\ [](/\ ChecksMade <= Len(commits)
        /\ \A k \in Failed : calls[k].step \in ErrorSteps => (k = Len(calls) /\ ret.returned)
        /\ ret.returned =>
             IF \E k \in Failed : calls[k].step \in ErrorSteps
             THEN ret.err /\ ret.pr = EmptyPR
             ELSE /\ ~ret.err
                  /\ \E k \in 1..Len(calls) : calls[k].step = "commits"
                  /\ ChecksMade = Len(ret.pr.Commits))

\* the number was resolved, the pull request and its issue comments were
\* fetched, the review-comment fetch failed: PullRequest{} and an error
C18_Witness ==
  /\ ret.returned
  /\ ret.err
  /\ ret.pr = EmptyPR
  /\ Len(calls) = 7
  /\ calls[3].step = "resolve"
  /\ calls[7].step = "reviewComments"
  /\ pr.Number # 0
  /\ Len(pr.Comments) > 0

====
